---- MODULE Spec2Model ----
(***************************************************************************)
(* A model of kdt::KDTree<PointT> (src/kdtree.h): the median-split build,  *)
(* validate, the three recursive searches and the BoundedPriorityQueue     *)
(* that knnSearch accumulates into.                                        *)
(*                                                                         *)
(* Representation.                                                         *)
(*  - A point is a tuple of DIM integer coordinates; points_ is a sequence *)
(*    of points and point indices are 0-based as in the code (At).         *)
(*  - The heap of Node objects is the function nodes from heap positions   *)
(*    to [idx, axis]: the root sits at position 1 and next[0], next[1] of  *)
(*    the node at position p sit at 2p and 2p+1; a null pointer is NULL.   *)
(*  - A non-negative double x is carried as x*x.  distance() returns       *)
(*    sqrt(s) for an integer s, fabs() returns an integer, and for the     *)
(*    integers that occur  sqrt(s) < sqrt(t)  <=>  s < t  and              *)
(*    d < sqrt(s)  <=>  d*d < s , so every comparison of the code is       *)
(*    decided exactly on the squares.                                      *)
(*  - std::nth_element only promises its postcondition, so build yields    *)
(*    every tree some conforming nth_element can produce.                  *)
(*  - Reads that the language leaves undefined (the uninitialised guess of *)
(*    nnSearch, back() of an empty vector) yield an arbitrary value.       *)
(***************************************************************************)
EXTENDS Integers, Sequences, FiniteSets, TLC

VARIABLES points_, root_, nodes, bound_, elements_, op, args, ret

vars == <<points_, root_, nodes, bound_, elements_, op, args, ret>>

(* ------------------------------ bounds --------------------------------- *)
\* largest number of points of a tree that is queried
MaxN == 4
\* largest number of points of a tree that is only built and validated
MaxTreeN == 5
\* largest number of points handed to build() on a live instance
MaxRebuildN == 2
\* points and queries are the first NumPoints points, row by row, of the
\* integer lattice that is GridW wide on every axis but the last
NumPoints == 4
GridW == 2
\* k of knnSearch ranges over 0..MaxK
MaxK == 3
\* range of rangequery ranges over 0..MaxRange
MaxRange == 2
\* capacity of a stand-alone BoundedPriorityQueue ranges over 0..MaxBound
MaxBound == 3
\* distances pushed into a stand-alone queue range over 0..MaxPushDist
MaxPushDist == 2
\* indices pushed into a stand-alone queue range over 0..MaxPushIdx
MaxPushIdx == 2

(* --------------------------- program constants ------------------------- *)
\* PointT::DIM
DIM == 2
\* the null pointer
NULL == 0
\* std::numeric_limits<double>::max(), above every distance that occurs
DBL_MAX == 1000000000

RECURSIVE Pow(_, _)
Pow(b, e) == IF e = 0 THEN 1 ELSE b * Pow(b, e - 1)
Lattice(i) ==
    [a \in 1..DIM |-> IF a < DIM THEN (i \div Pow(GridW, a - 1)) % GridW
                                 ELSE i \div Pow(GridW, DIM - 1)]
Points == { Lattice(i) : i \in 0..(NumPoints - 1) }
PointSeqs(n) == UNION { [1..m -> Points] : m \in 0..n }
\* values an uninitialised int may hold: one that is no index, one that
\* looks like an index
UninitInt == {-1, 0}
\* values a double read outside the vector may hold (as squares): below
\* every axis difference that is not 0, between, above all
UninitDouble == {0, 2, DBL_MAX}

At(pts, i) == pts[i + 1]
Size(pts) == Len(pts)

EmptyHeap == [p \in {} |-> [idx |-> -1, axis |-> -1]]
Merge(f, g) == [p \in (DOMAIN f) \cup (DOMAIN g) |-> IF p \in DOMAIN f THEN f[p] ELSE g[p]]
\* node->next[dir] of the node at heap position pos
Child(nd, pos, dir) == IF (2 * pos + dir) \in DOMAIN nd THEN 2 * pos + dir ELSE NULL

(* ------------------------------- build --------------------------------- *)
\* AxisLess with the axis forgotten: always compares coordinate 0
AxisLess_Axis0(pts, axis, lhs, rhs) == At(pts, lhs)[1] < At(pts, rhs)[1]

\* the comparator handed to nth_element
AxisLess(pts, axis, lhs, rhs) == At(pts, lhs)[axis + 1] < At(pts, rhs)[axis + 1]

\* NthElement that orders only the part before mid
NthElement_NoRight(pts, S, mid, axis) ==
    { pl \in S \X SUBSET S :
        /\ pl[1] \notin pl[2]
        /\ Cardinality(pl[2]) = mid
        /\ \A i \in pl[2] : ~AxisLess(pts, axis, pl[1], i) }

\* The outcomes of nth_element on the index range S at position mid: the
\* element p left at mid and the set L of elements left before it.
NthElement(pts, S, mid, axis) ==
    { pl \in S \X SUBSET S :
        /\ pl[1] \notin pl[2]
        /\ Cardinality(pl[2]) = mid
        /\ \A i \in pl[2] : ~AxisLess(pts, axis, pl[1], i)
        /\ \A j \in (S \ pl[2]) \ {pl[1]} : ~AxisLess(pts, axis, j, pl[1]) }

\* Mid that takes the first position of the range as the pivot
Mid_First(npoints) == 0

\* const int mid = (npoints - 1) / 2
Mid(npoints) == (npoints - 1) \div 2

RECURSIVE buildRecursive(_, _, _, _)
\* every subtree buildRecursive can return for the index range S, rooted at pos
buildRecursive(pts, S, depth, pos) ==
    IF Cardinality(S) <= 0 THEN { EmptyHeap }
    ELSE LET axis == depth % DIM
             mid  == Mid(Cardinality(S))
         IN UNION { { Merge(Merge(pos :> [idx |-> pl[1], axis |-> axis], l), r) :
                        l \in buildRecursive(pts, pl[2], depth + 1, 2 * pos),
                        r \in buildRecursive(pts, (S \ pl[2]) \ {pl[1]}, depth + 1, 2 * pos + 1) }
                    : pl \in NthElement(pts, S, mid, axis) }

BuildTrees(pts) == buildRecursive(pts, 0..(Size(pts) - 1), 0, 1)

RootOf(nd) == IF 1 \in DOMAIN nd THEN 1 ELSE NULL

NoArgs == [points |-> <<>>, query |-> <<>>, k |-> 0, range |-> 0, val |-> <<>>]
NoRet  == [guess |-> -1, minDist |-> 0, indices |-> <<>>, valid |-> TRUE, backOnEmpty |-> FALSE]

(* ------------------------------ validate ------------------------------- *)
RECURSIVE validateRecursive(_, _, _)
\* TRUE iff validateRecursive returns without throwing Exception
validateRecursive(pts, nd, pos) ==
    IF pos = NULL THEN TRUE
    ELSE LET axis  == nd[pos].axis
             node0 == Child(nd, pos, 0)
             node1 == Child(nd, pos, 1)
             here  == At(pts, nd[pos].idx)[axis + 1]
         IN IF /\ node0 # NULL
               /\ node1 # NULL
               /\ \/ here < At(pts, nd[node0].idx)[axis + 1]
                  \/ here > At(pts, nd[node1].idx)[axis + 1]
            THEN FALSE
            ELSE /\ (node0 # NULL => validateRecursive(pts, nd, node0))
                 /\ (node1 # NULL => validateRecursive(pts, nd, node1))

\* validate(): the Exception is caught and turned into false
validate(pts, nd) == validateRecursive(pts, nd, RootOf(nd))

(* ------------------------------ distance ------------------------------- *)
RECURSIVE SumSq(_, _, _)
SumSq(p, q, i) == IF i = 0 THEN 0 ELSE SumSq(p, q, i - 1) + (p[i] - q[i]) * (p[i] - q[i])

\* distance(p, q), carried as its square
distance(p, q) == SumSq(p, q, DIM)

\* fabs(query[axis] - train[axis]), carried as its square
AxisDiff(query, train, axis) ==
    (query[axis + 1] - train[axis + 1]) * (query[axis + 1] - train[axis + 1])

\* query[axis] < train[axis] ? 0 : 1
Dir(query, train, axis) == IF query[axis + 1] < train[axis + 1] THEN 0 ELSE 1

(* ------------------------------ nnSearch ------------------------------- *)
RECURSIVE nnSearchRecursive_NearOnly(_, _, _, _, _)
\* nnSearchRecursive that never descends into the far side
nnSearchRecursive_NearOnly(pts, nd, query, pos, st) ==
    IF pos = NULL THEN st
    ELSE LET train == At(pts, nd[pos].idx)
             dist  == distance(query, train)
             st1   == IF dist < st.minDist
                      THEN [guess |-> nd[pos].idx, minDist |-> dist]
                      ELSE st
             axis  == nd[pos].axis
             dir   == Dir(query, train, axis)
         IN nnSearchRecursive_NearOnly(pts, nd, query, Child(nd, pos, dir), st1)

RECURSIVE nnSearchRecursive(_, _, _, _, _)
\* st = [guess, minDist]: the two out-parameters
nnSearchRecursive(pts, nd, query, pos, st) ==
    IF pos = NULL THEN st
    ELSE LET train == At(pts, nd[pos].idx)
             dist  == distance(query, train)
             st1   == IF dist < st.minDist
                      THEN [guess |-> nd[pos].idx, minDist |-> dist]
                      ELSE st
             axis  == nd[pos].axis
             dir   == Dir(query, train, axis)
             st2   == nnSearchRecursive(pts, nd, query, Child(nd, pos, dir), st1)
             diff  == AxisDiff(query, train, axis)
         IN IF diff < st2.minDist
            THEN nnSearchRecursive(pts, nd, query, Child(nd, pos, 1 - dir), st2)
            ELSE st2

\* nnSearch(query, &minDist); uninit is the value the uninitialised guess holds
nnSearch(pts, nd, query, uninit) ==
    nnSearchRecursive(pts, nd, query, RootOf(nd), [guess |-> uninit, minDist |-> DBL_MAX])

(* ------------------------- BoundedPriorityQueue ------------------------ *)
\* PairLess that compares the distances only
PairLess_First(a, b) == a[1] < b[1]

\* std::less<std::pair<double, int>>
PairLess(a, b) == a[1] < b[1] \/ (a[1] = b[1] /\ a[2] < b[2])

\* std::find_if: the first position whose element satisfies val < element,
\* or the end position
FindIf(elements, val) ==
    LET hits == { i \in 1..Len(elements) : PairLess(val, elements[i]) }
    IN IF hits = {} THEN Len(elements) + 1
       ELSE CHOOSE i \in hits : \A j \in hits : i <= j

InsertAt(elements, it, val) ==
    SubSeq(elements, 1, it - 1) \o <<val>> \o SubSeq(elements, it, Len(elements))

\* BoundedPriorityQueue::push
push(elements, bound, val) ==
    LET inserted == InsertAt(elements, FindIf(elements, val), val)
    IN IF Len(inserted) > bound THEN SubSeq(inserted, 1, bound) ELSE inserted

(* ------------------------------ knnSearch ------------------------------ *)
RECURSIVE knnSearchRecursive_NoFill(_, _, _, _, _, _, _)
\* knnSearchRecursive whose far-side test forgets the queue that is not full
knnSearchRecursive_NoFill(pts, nd, query, pos, st, k, ub) ==
    IF pos = NULL THEN st
    ELSE LET train == At(pts, nd[pos].idx)
             dist  == distance(query, train)
             st1   == [st EXCEPT !.queue = push(st.queue, k, <<dist, nd[pos].idx>>)]
             axis  == nd[pos].axis
             dir   == Dir(query, train, axis)
             st2   == knnSearchRecursive_NoFill(pts, nd, query, Child(nd, pos, dir), st1, k, ub)
             diff  == AxisDiff(query, train, axis)
             far   == Child(nd, pos, 1 - dir)
         IN IF Len(st2.queue) > 0 /\ diff < st2.queue[Len(st2.queue)][1]
            THEN knnSearchRecursive_NoFill(pts, nd, query, far, st2, k, ub)
            ELSE st2

RECURSIVE knnSearchRecursive(_, _, _, _, _, _, _)
\* st = [queue, backOnEmpty]; backOnEmpty records that back() was evaluated
\* on an empty queue, and ub is the value that back().first yields there.
knnSearchRecursive(pts, nd, query, pos, st, k, ub) ==
    IF pos = NULL THEN st
    ELSE LET train == At(pts, nd[pos].idx)
             dist  == distance(query, train)
             st1   == [st EXCEPT !.queue = push(st.queue, k, <<dist, nd[pos].idx>>)]
             axis  == nd[pos].axis
             dir   == Dir(query, train, axis)
             st2   == knnSearchRecursive(pts, nd, query, Child(nd, pos, dir), st1, k, ub)
             diff  == AxisDiff(query, train, axis)
             far   == Child(nd, pos, 1 - dir)
         IN IF Len(st2.queue) < k
            THEN knnSearchRecursive(pts, nd, query, far, st2, k, ub)
            ELSE IF Len(st2.queue) = 0
            THEN LET st3 == [st2 EXCEPT !.backOnEmpty = TRUE]
                 IN IF diff < ub
                    THEN knnSearchRecursive(pts, nd, query, far, st3, k, ub)
                    ELSE st3
            ELSE IF diff < st2.queue[Len(st2.queue)][1]
            THEN knnSearchRecursive(pts, nd, query, far, st2, k, ub)
            ELSE st2

\* knnSearch(query, k): the indices of the queue, and whether back() was
\* evaluated on an empty queue on the way
knnSearch(pts, nd, query, k, ub) ==
    LET st == knnSearchRecursive(pts, nd, query, RootOf(nd),
                                 [queue |-> <<>>, backOnEmpty |-> FALSE], k, ub)
    IN [indices |-> [i \in 1..Len(st.queue) |-> st.queue[i][2]],
        backOnEmpty |-> st.backOnEmpty]

(* ------------------------------ rangequery ----------------------------- *)
RECURSIVE rangequeryRecursive_Closed(_, _, _, _, _, _)
\* rangequeryRecursive that also takes the points at distance exactly range
rangequeryRecursive_Closed(pts, nd, query, pos, indices, range) ==
    IF pos = NULL THEN indices
    ELSE LET train == At(pts, nd[pos].idx)
             dist  == distance(query, train)
             ind1  == IF dist <= range * range THEN Append(indices, nd[pos].idx) ELSE indices
             axis  == nd[pos].axis
             dir   == Dir(query, train, axis)
             ind2  == rangequeryRecursive_Closed(pts, nd, query, Child(nd, pos, dir), ind1, range)
             diff  == AxisDiff(query, train, axis)
         IN IF diff < range * range
            THEN rangequeryRecursive_Closed(pts, nd, query, Child(nd, pos, 1 - dir), ind2, range)
            ELSE ind2

RECURSIVE rangequeryRecursive(_, _, _, _, _, _)
\* range is the argument itself; the comparisons use its square
rangequeryRecursive(pts, nd, query, pos, indices, range) ==
    IF pos = NULL THEN indices
    ELSE LET train == At(pts, nd[pos].idx)
             dist  == distance(query, train)
             ind1  == IF dist < range * range THEN Append(indices, nd[pos].idx) ELSE indices
             axis  == nd[pos].axis
             dir   == Dir(query, train, axis)
             ind2  == rangequeryRecursive(pts, nd, query, Child(nd, pos, dir), ind1, range)
             diff  == AxisDiff(query, train, axis)
         IN IF diff < range * range
            THEN rangequeryRecursive(pts, nd, query, Child(nd, pos, 1 - dir), ind2, range)
            ELSE ind2

rangequery(pts, nd, query, range) ==
    rangequeryRecursive(pts, nd, query, RootOf(nd), <<>>, range)

(* ------------------------------- actions ------------------------------- *)
\* clear(): the old tree is torn down
clear(nd) == EmptyHeap

\* KDTree()
Init ==
    /\ points_ = <<>>
    /\ nodes = EmptyHeap
    /\ root_ = NULL
    /\ bound_ = 0
    /\ elements_ = <<>>
    /\ op = "KDTree"
    /\ args = NoArgs
    /\ ret = NoRet

\* KDTree(points) for a point sequence of at most n points
Constructed(n) ==
    /\ \E pts \in PointSeqs(n) :
         /\ points_ = pts
         /\ nodes \in BuildTrees(pts)
    /\ args = NoArgs
    /\ root_ = RootOf(nodes)
    /\ bound_ = 0
    /\ elements_ = <<>>
    /\ op = "KDTree"
    /\ ret = NoRet

InitPoints == Constructed(MaxN)
InitTree == Constructed(MaxTreeN)

\* BoundedPriorityQueue(bound)
InitQueue ==
    /\ points_ = <<>>
    /\ nodes = EmptyHeap
    /\ root_ = NULL
    /\ bound_ \in 0..MaxBound
    /\ elements_ = <<>>
    /\ op = "BoundedPriorityQueue"
    /\ args = NoArgs
    /\ ret = NoRet

Build ==
    \E pts \in PointSeqs(MaxRebuildN) :
        \E t \in BuildTrees(pts) :
            /\ points_' = pts
            /\ nodes' = Merge(t, clear(nodes))
            /\ root_' = RootOf(nodes')
            /\ op' = "build"
            /\ args' = [NoArgs EXCEPT !.points = pts]
            /\ ret' = NoRet
            /\ UNCHANGED <<bound_, elements_>>

Validate ==
    /\ op' = "validate"
    /\ args' = NoArgs
    /\ ret' = [NoRet EXCEPT !.valid = validate(points_, nodes)]
    /\ UNCHANGED <<points_, root_, nodes, bound_, elements_>>

NnSearch ==
    \E query \in Points, uninit \in UninitInt :
        /\ op' = "nnSearch"
        /\ args' = [NoArgs EXCEPT !.query = query]
        /\ LET r == nnSearch(points_, nodes, query, uninit)
           IN ret' = [NoRet EXCEPT !.guess = r.guess, !.minDist = r.minDist]
        /\ UNCHANGED <<points_, root_, nodes, bound_, elements_>>

\* the values back().first may yield on an empty queue; the queue is empty
\* at that read only when k = 0
Outcomes(k) == IF k = 0 THEN UninitDouble ELSE {0}

KnnSearch ==
    \E query \in Points, k \in 0..MaxK :
        \E ub \in Outcomes(k) :
            /\ op' = "knnSearch"
            /\ args' = [NoArgs EXCEPT !.query = query, !.k = k]
            /\ LET r == knnSearch(points_, nodes, query, k, ub)
               IN ret' = [NoRet EXCEPT !.indices = r.indices, !.backOnEmpty = r.backOnEmpty]
            /\ UNCHANGED <<points_, root_, nodes, bound_, elements_>>

Rangequery ==
    \E query \in Points, range \in 0..MaxRange :
        /\ op' = "rangequery"
        /\ args' = [NoArgs EXCEPT !.query = query, !.range = range]
        /\ ret' = [NoRet EXCEPT !.indices = rangequery(points_, nodes, query, range)]
        /\ UNCHANGED <<points_, root_, nodes, bound_, elements_>>

Push ==
    \E val \in (0..MaxPushDist) \X (0..MaxPushIdx) :
        /\ elements_' = push(elements_, bound_, val)
        /\ op' = "push"
        /\ args' = [NoArgs EXCEPT !.val = val]
        /\ UNCHANGED <<points_, root_, nodes, bound_, ret>>

\* one instance through its life: default-constructed, then built and queried
Next == Build \/ Validate \/ NnSearch \/ KnnSearch \/ Rangequery
Spec == Init /\ [][Next]_vars

\* an instance constructed from a point set, then one call on it
NextValidate == op = "KDTree" /\ Validate
SpecValidate == InitTree /\ [][NextValidate]_vars

NextNn == op = "KDTree" /\ NnSearch
SpecNn == InitPoints /\ [][NextNn]_vars

NextKnn == op = "KDTree" /\ KnnSearch
SpecKnn == InitPoints /\ [][NextKnn]_vars

NextRange == op = "KDTree" /\ Rangequery
SpecRange == InitPoints /\ [][NextRange]_vars

\* a stand-alone bounded queue
NextBPQ == Push
SpecBPQ == InitQueue /\ [][NextBPQ]_vars

(* ------------------------- reference notions --------------------------- *)
Indices == 0..(Size(points_) - 1)
\* distance from the query of the last call to point i, as its square
QDist(i) == distance(args.query, At(points_, i))
Min(a, b) == IF a < b THEN a ELSE b
Range(seq) == { seq[i] : i \in 1..Len(seq) }
Distinct(seq) == \A i, j \in 1..Len(seq) : i # j => seq[i] # seq[j]

RECURSIVE IsUnder(_, _)
\* heap position p lies in the subtree rooted at position pos
IsUnder(p, pos) == p = pos \/ (p > pos /\ IsUnder(p \div 2, pos))
\* the point indices held by the subtree rooted at pos (none for NULL)
Sub(pos) == { nodes[p].idx : p \in { x \in DOMAIN nodes : pos # NULL /\ IsUnder(x, pos) } }
\* coordinate of point i on axis a
Coord(i, a) == At(points_, i)[a + 1]

RECURSIVE DepthOf(_)
DepthOf(p) == IF p <= 1 THEN 0 ELSE 1 + DepthOf(p \div 2)
\* number of edges on the longest path from the root to a leaf
Height == CHOOSE h \in 0..Size(points_) :
              /\ \E p \in DOMAIN nodes : DepthOf(p) = h
              /\ \A p \in DOMAIN nodes : DepthOf(p) <= h
RECURSIVE FloorLog2(_)
FloorLog2(n) == IF n <= 1 THEN 0 ELSE 1 + FloorLog2(n \div 2)
CeilLog2(n) == IF n <= 1 THEN 0 ELSE 1 + FloorLog2(n - 1)

(* -------------------------------- C1 ----------------------------------- *)
\* C1: on a non-empty point set nnSearch returns an index of the set whose
\* distance to the query is minimal over the whole set, and the distance it
\* reports is that minimum.
C1_NearestIsMinimal ==
    (op = "nnSearch" /\ Size(points_) > 0) =>
        /\ ret.guess \in Indices
        /\ ret.minDist = QDist(ret.guess)
        /\ \A i \in Indices : ret.minDist <= QDist(i)

\* four points; the nearest one is not the root's, is not at the query
\* itself, is tied with another point and closer than a third
C1_Witness ==
    /\ op = "nnSearch"
    /\ Size(points_) = 4
    /\ ret.guess # nodes[1].idx
    /\ ret.minDist > 0
    /\ \E i \in Indices : i # ret.guess /\ QDist(i) = ret.minDist
    /\ \E i \in Indices : QDist(i) > ret.minDist

(* -------------------------------- C2 ----------------------------------- *)
\* C2: for k >= 1 knnSearch returns min(k, n) pairwise distinct indices in
\* non-decreasing order of distance, and no point left out is closer than a
\* point returned (the distances returned are the min(k, n) smallest).
C2_KnnIsTopK ==
    (op = "knnSearch" /\ args.k >= 1) =>
        /\ Len(ret.indices) = Min(args.k, Size(points_))
        /\ Range(ret.indices) \subseteq Indices
        /\ Distinct(ret.indices)
        /\ \A i \in 1..(Len(ret.indices) - 1) :
               QDist(ret.indices[i]) <= QDist(ret.indices[i + 1])
        /\ \A i \in Range(ret.indices) : \A j \in Indices \ Range(ret.indices) :
               QDist(i) <= QDist(j)

\* fewer neighbours asked for than there are points, the first one returned
\* strictly closer than the last, a point left out that is tied with the
\* last one returned and one that is strictly farther
C2_Witness ==
    /\ op = "knnSearch"
    /\ args.k >= 2
    /\ args.k < Size(points_)
    /\ Len(ret.indices) = args.k
    /\ QDist(ret.indices[1]) < QDist(ret.indices[args.k])
    /\ \E j \in Indices \ Range(ret.indices) : QDist(j) = QDist(ret.indices[args.k])
    /\ \E j \in Indices \ Range(ret.indices) : QDist(j) > QDist(ret.indices[args.k])

\* more neighbours asked for than there are points
C2_WitnessAll ==
    /\ op = "knnSearch"
    /\ args.k > Size(points_)
    /\ Size(points_) >= 2
    /\ Len(ret.indices) = Size(points_)

(* -------------------------------- C3 ----------------------------------- *)
\* C3: rangequery returns each index at most once, and returns exactly the
\* indices whose distance to the query is strictly less than range.
C3_RangeIsExact ==
    op = "rangequery" =>
        /\ Distinct(ret.indices)
        /\ Range(ret.indices) = { i \in Indices : QDist(i) < args.range * args.range }

\* a point inside, a point at distance exactly range, left out
C3_Witness ==
    /\ op = "rangequery"
    /\ args.range >= 1
    /\ Len(ret.indices) >= 2
    /\ \E i \in Indices : QDist(i) = args.range * args.range /\ i \notin Range(ret.indices)

\* range 0 on a point that coincides with the query
C3_WitnessZero ==
    /\ op = "rangequery"
    /\ args.range = 0
    /\ \E i \in Indices : QDist(i) = 0
    /\ ret.indices = <<>>

(* -------------------------------- C4 ----------------------------------- *)
EmptyTreeResults ==
    root_ = NULL =>
        /\ op = "nnSearch" => (ret.guess < 0 /\ ret.minDist = DBL_MAX)
        /\ op = "knnSearch" => ret.indices = <<>>
        /\ op = "rangequery" => ret.indices = <<>>

SameSentinel ==
    (root_ = NULL /\ op = "nnSearch" /\ op' = "nnSearch") => ret'.guess = ret.guess

\* C4: on an empty tree nnSearch returns one fixed index that is no point
\* index, with the largest distance, and knnSearch and rangequery return
\* the empty sequence.
C4_EmptyTreeSentinel == []EmptyTreeResults /\ [][SameSentinel]_vars

(* -------------------------------- C5 ----------------------------------- *)
\* at every node with both children the pivot is not less than the left
\* child and not greater than the right child on the node's axis
OneLevelOrdered ==
    \A p \in DOMAIN nodes :
        (Child(nodes, p, 0) # NULL /\ Child(nodes, p, 1) # NULL) =>
            /\ Coord(nodes[p].idx, nodes[p].axis) >= Coord(nodes[2 * p].idx, nodes[p].axis)
            /\ Coord(nodes[p].idx, nodes[p].axis) <= Coord(nodes[2 * p + 1].idx, nodes[p].axis)

\* C5: on a non-empty point set validate() returns true after build, and the
\* one-level ordering it checks holds at every node with two children.
C5_ValidateAfterBuild ==
    (op = "validate" /\ Size(points_) > 0) => (ret.valid /\ OneLevelOrdered)

\* a validated tree whose root has two children, one of them tied with it
C5_Witness ==
    /\ op = "validate"
    /\ Size(points_) >= 3
    /\ ret.valid
    /\ Coord(nodes[1].idx, 0) = Coord(nodes[3].idx, 0)
    /\ Coord(nodes[1].idx, 0) > Coord(nodes[2].idx, 0)

(* -------------------------------- C6 ----------------------------------- *)
\* each index of the point array sits in exactly one node
NodesArePermutation ==
    /\ { nodes[p].idx : p \in DOMAIN nodes } = Indices
    /\ Cardinality(DOMAIN nodes) = Size(points_)
    /\ root_ = RootOf(nodes)

LifecycleStep ==
    /\ op' = "build" => points_' = args'.points
    /\ op' # "build" => (points_' = points_ /\ nodes' = nodes /\ root_' = root_)
    /\ (op' = op /\ args' = args /\ op' # "build") => ret' = ret

\* C6: the point array is the argument of the latest build and the nodes
\* hold a permutation of its indices; validate and the queries change
\* neither, and a query that is repeated returns the same result.
C6_Lifecycle == []NodesArePermutation /\ [][LifecycleStep]_vars

(* -------------------------------- C7 ----------------------------------- *)
\* C7 as stated: below every node, the points not greater than the pivot on
\* the node's axis are in the left subtree and the greater ones in the right.
C7_StrictPartition ==
    \A p \in DOMAIN nodes :
        \A i \in Sub(p) \ {nodes[p].idx} :
            /\ Coord(i, nodes[p].axis) <= Coord(nodes[p].idx, nodes[p].axis)
                   => i \in Sub(Child(nodes, p, 0))
            /\ Coord(i, nodes[p].axis) > Coord(nodes[p].idx, nodes[p].axis)
                   => i \in Sub(Child(nodes, p, 1))

\* C7 amended: below every node, the points smaller than the pivot on the
\* node's axis are in the left subtree and the greater ones in the right;
\* a point equal to the pivot there may be in either.
C7_WeakPartition ==
    \A p \in DOMAIN nodes :
        \A i \in Sub(p) \ {nodes[p].idx} :
            /\ Coord(i, nodes[p].axis) < Coord(nodes[p].idx, nodes[p].axis)
                   => i \in Sub(Child(nodes, p, 0))
            /\ Coord(i, nodes[p].axis) > Coord(nodes[p].idx, nodes[p].axis)
                   => i \in Sub(Child(nodes, p, 1))

\* a built tree of four points: a smaller point left of the root, a point
\* equal to the root right of it, and on the next axis a greater point right
\* of the root's right child
C7_Witness ==
    /\ Size(points_) = 4
    /\ DOMAIN nodes = {1, 2, 3, 7}
    /\ Coord(nodes[2].idx, 0) < Coord(nodes[1].idx, 0)
    /\ \E i \in Sub(3) : Coord(i, 0) = Coord(nodes[1].idx, 0)
    /\ Coord(nodes[7].idx, 1) > Coord(nodes[3].idx, 1)

(* -------------------------------- C8 ----------------------------------- *)
\* C8 as stated: a tree of n >= 1 points has height ceil(log2 n).
C8_HeightCeil == Size(points_) >= 1 => Height = CeilLog2(Size(points_))

\* C8 amended: a tree of n >= 1 points has height floor(log2 n).
C8_HeightFloor == Size(points_) >= 1 => Height = FloorLog2(Size(points_))

\* three points: a root with two leaves
C8_Witness == Size(points_) = 3 /\ Height = 1 /\ DOMAIN nodes = {1, 2, 3}

(* -------------------------------- C9 ----------------------------------- *)
Truncate(seq, n) == IF Len(seq) > n THEN SubSeq(seq, 1, n) ELSE seq
\* first position whose entry is not strictly less than d by distance
FirstNotLess(seq, d) ==
    LET hits == { i \in 1..Len(seq) : ~(seq[i][1] < d) }
    IN IF hits = {} THEN Len(seq) + 1 ELSE CHOOSE i \in hits : \A j \in hits : i <= j
PairLeq(a, b) == a[1] < b[1] \/ (a[1] = b[1] /\ a[2] <= b[2])

PushBeforeEqualDistances ==
    op' = "push" =>
        elements_' = Truncate(InsertAt(elements_, FirstNotLess(elements_, args'.val[1]),
                                       args'.val), bound_)

\* C9 as stated: push places the new entry before the first entry whose
\* distance is not less, so before every entry of the same distance.
C9_PushBeforeEqual == [][PushBeforeEqualDistances]_vars

PushInPairOrder ==
    op' = "push" =>
        elements_' = Truncate(SelectSeq(elements_, LAMBDA e : PairLeq(e, args'.val))
                              \o <<args'.val>>
                              \o SelectSeq(elements_, LAMBDA e : ~PairLeq(e, args'.val)),
                              bound_)

\* C9 amended: push places the new entry before the first entry that is
\* greater in (distance, index) order: after the entries of the same distance
\* with a smaller or equal index and before those with a greater index.
C9_PushInPairOrder == [][PushInPairOrder]_vars

\* the entry pushed last sits behind an earlier entry of the same distance
\* and before another one
C9_Witness ==
    /\ op = "push"
    /\ Len(elements_) = 3
    /\ elements_[2] = args.val
    /\ elements_[1][1] = args.val[1] /\ elements_[1][2] < args.val[2]
    /\ elements_[3][1] = args.val[1] /\ elements_[3][2] > args.val[2]

(* -------------------------------- C10 ---------------------------------- *)
\* C10: knnSearch never evaluates back() on an empty queue, and returns at
\* most min(k, n) indices.
C10_BackOnNonEmpty ==
    op = "knnSearch" =>
        /\ ~ret.backOnEmpty
        /\ Len(ret.indices) <= Min(args.k, Size(points_))

====
